---- MODULE Spec2Model ----
(***************************************************************************)
(* A model of the auto-shorts video generation pipeline: the entry points  *)
(* genVideo / genVideoWithJson (src/index.ts), the VideoGen base class     *)
(* (videogen.ts), the voice and image providers (tts.ts, image.ts) and the *)
(* five generateVideo() pipelines (types/*.ts).  One run of the pipeline   *)
(* is a walk through the sequence of awaited calls of generateVideo();     *)
(* every awaited call is one action that either succeeds or fails the way  *)
(* the code lets it fail.  Durations are whole seconds.                    *)
(***************************************************************************)
EXTENDS Integers, Sequences, FiniteSets, TLC

\* ---------------------------------------------------------------- bounds
\* longest script array (bubbles, questions, rankings)
MaxUnits == 2
\* longest images array
MaxImages == 2
\* longest synthesized voice clip, in seconds
MaxDur == 1
\* length of the cue clips res/tick.mp3 and res/clock.mp3, in seconds
CueDur == 1
\* length of the background music track, in seconds
BgDur == 4
\* number of 'progress' events the renderer emits before it terminates
MaxProgress == 1

\* ------------------------------------------------------------ JS helpers
\* Array.prototype.reduce((a, b) => a + b, 0)
RECURSIVE reduceSum(_)
reduceSum(s) == IF s = <<>> THEN 0 ELSE Head(s) + reduceSum(Tail(s))

\* Array.prototype.slice(0, end): end beyond the length is clamped
slice0(s, end) == SubSeq(s, 1, IF end < Len(s) THEN end ELSE Len(s))

\* arr[i] ?? 0 for a 0-based index i
orZero(s, i) == IF i + 1 \in 1..Len(s) THEN s[i + 1] ELSE 0

\* arr[arr.length - 1] of a non-empty array
last(s) == s[Len(s)]

\* the value JavaScript gives x / 0 for x > 0; larger than any duration here
Infinity == 1000000

\* Math.round(a / n) for integers a >= 0, n >= 0 (halves round up)
roundDiv(a, n) == IF n = 0 THEN Infinity ELSE (2 * a + n) \div (2 * n)

Max(a, b) == IF a > b THEN a ELSE b

\* ------------------------------------------------------------ the inputs
ShapeTypes == {"message", "topic", "rank", "rather", "quiz"}

\* the fields of a document that generateVideo() tests for truthiness
ShapeFields(t) ==
    CASE t = "message" -> {"contactname", "script", "extra"}
      [] t = "topic"   -> {"text", "extra", "images"}
      [] t = "rank"    -> {"rankings", "images", "start_script", "end_script"}
      [] t = "rather"  -> {"questions", "start_script", "end_script"}
      [] t = "quiz"    -> {"title", "questions", "start_script", "end_script"}
      [] OTHER         -> {}

\* the array field that carries the narration units of a shape
UnitField(t) ==
    CASE t = "message" -> "script"
      [] t = "rank"    -> "rankings"
      [] t = "rather"  -> "questions"
      [] t = "quiz"    -> "questions"
      [] OTHER         -> "none"

\* A JSON value: null, a number, a string, or an object.  An object has a
\* `type` ("undefined" when the field is absent), the set of its truthy
\* fields, the length n of its unit array and the length m of `images`.
NonObject(k) == [json |-> k, type |-> "undefined", fields |-> {}, n |-> 0, m |-> 0]

ShapeDocs(t) ==
    { [json |-> "object", type |-> t, fields |-> f, n |-> n, m |-> m] :
        f \in { ShapeFields(t) } \cup { ShapeFields(t) \ {x} : x \in ShapeFields(t) },
        n \in 0..MaxUnits, m \in 0..MaxImages }

\* arrays that are absent have no length; shapes without an array have none
WellFormed(d) ==
    /\ (UnitField(d.type) \notin d.fields) => d.n = 0
    /\ ("images" \notin d.fields) => d.m = 0

JsonValues ==
    { NonObject("null"), NonObject("number"), NonObject("string") }
    \cup { [json |-> "object", type |-> t, fields |-> {}, n |-> 0, m |-> 0] :
             t \in {"undefined", "bogus"} }
    \cup { d \in UNION { ShapeDocs(t) : t \in ShapeTypes } : WellFormed(d) }

\* What genVideo is handed directly (by genVideoWithAI, the text of the
\* model's answer): undefined, "", text that is not JSON, or the JSON text
\* of a value.  The shape documents reach genVideo as the text that
\* genVideoWithJson makes of them.
JsonStrings ==
    { [kind |-> k, value |-> NonObject("null")] : k \in {"undefined", "empty", "garbage"} }
    \cup { [kind |-> "text", value |-> v] : v \in { x \in JsonValues : x.type \notin ShapeTypes } }

\* JSON.stringify(data): undefined stays undefined, every value (the empty
\* string included) becomes its JSON text
stringify(data) ==
    IF data.kind = "undefined"
    THEN [kind |-> "undefined", value |-> NonObject("null")]
    ELSE [kind |-> "text", value |-> data.value]

\* what a caller can hand to genVideoWithJson
JsonData ==
    { [kind |-> "undefined", value |-> NonObject("null")] }
    \cup { [kind |-> "value", value |-> v] : v \in JsonValues }

DEFAULT_INTERNAL_VIDEO_OPTIONS ==
    [debug |-> FALSE, changePhotos |-> TRUE, disableTTS |-> FALSE,
     disableSubtitles |-> FALSE]

\* the options of the run that the pipeline reads, with resOk telling
\* whether resPath holds the folders models, vid and music
DefaultOptions ==
    [internalOptions |-> DEFAULT_INTERNAL_VIDEO_OPTIONS,
     useBgMusic |-> TRUE, voiceGenType |-> "ElevenLabs",
     imageGenType |-> "Pexels", orientation |-> "vertical", resOk |-> TRUE]

AllOptions ==
    [internalOptions : [debug : BOOLEAN, changePhotos : BOOLEAN,
                        disableTTS : BOOLEAN, disableSubtitles : BOOLEAN],
     useBgMusic : BOOLEAN,
     voiceGenType : {"ElevenLabs", "NeetsTTS", "BuiltinTTS"},
     imageGenType : {"Pexels", "GoogleScraper"},
     orientation : {"vertical", "horizontal"},
     resOk : BOOLEAN]

B2N(b) == IF b THEN 1 ELSE 0

\* in how many settings o differs from the default options
Deviations(o) ==
      B2N(o.internalOptions.debug # DefaultOptions.internalOptions.debug)
    + B2N(o.internalOptions.changePhotos # DefaultOptions.internalOptions.changePhotos)
    + B2N(o.internalOptions.disableTTS # DefaultOptions.internalOptions.disableTTS)
    + B2N(o.internalOptions.disableSubtitles # DefaultOptions.internalOptions.disableSubtitles)
    + B2N(o.useBgMusic # DefaultOptions.useBgMusic)
    + B2N(o.voiceGenType # DefaultOptions.voiceGenType)
    + B2N(o.imageGenType # DefaultOptions.imageGenType)
    + B2N(o.orientation # DefaultOptions.orientation)
    + B2N(o.resOk # DefaultOptions.resOk)

\* the runs explored: the default options with at most this many changed
MaxDeviations == 1

VideoOptions == { o \in AllOptions : Deviations(o) <= MaxDeviations }

\* ------------------------------------------------------------- the files
\* a file is <<name, index>>; the files of the workspace are in `files`
NoFile == <<"", 0>>
\* what images[0] is when the array is empty
Undefined == <<"undefined", 0>>
tick == <<"res/tick.mp3", 0>>
clock == <<"res/clock.mp3", 0>>
bgMusic == <<"res/music/*.mp3", 0>>

ResFiles == {tick, clock, bgMusic}

\* a file left in a folder of the same id by an earlier run
staleFile == <<"video.mp4", 0>>

Write(fs, f, d) == [ x \in DOMAIN fs \cup {f} |-> IF x = f THEN d ELSE fs[x] ]

\* ---------------------------------------------------- the awaited calls
\* One step of generateVideo(): the operation, its input files, its output
\* file, whether the output is pushed onto voiceFiles, and (for image
\* resolution) the number of queries.
Step(op) == [op |-> op, ins |-> <<>>, out |-> NoFile, push |-> FALSE, k |-> 0]
Voice(f, push) == [op |-> "generateVoice", ins |-> <<>>, out |-> f, push |-> push, k |-> 0]
Merge(op, ins, f) == [op |-> op, ins |-> ins, out |-> f, push |-> TRUE, k |-> 0]
File(op, ins, f) == [op |-> op, ins |-> ins, out |-> f, push |-> FALSE, k |-> 0]
Images(k, prefix) == [op |-> "generateImages", ins |-> <<>>, out |-> prefix, push |-> FALSE, k |-> k]

RECURSIVE Flatten(_)
Flatten(ss) == IF ss = <<>> THEN <<>> ELSE Head(ss) \o Flatten(Tail(ss))

Opt(c, s) == IF c THEN s ELSE <<>>

\* MsgVideo.generateVideo: the awaited calls in program order
MsgVideo_generateVideo(d, o) ==
    << Step("checkJson"), Step("checkTempPath") >>
    \o [ i \in 1..d.n |-> Voice(<<"message.wav", i - 1>>, TRUE) ]
    \o Opt("extra" \in d.fields, << Voice(<<"extra.wav", 0>>, TRUE) >>)
    \o << File("combineVoiceFiles", <<>>, <<"voice.wav", 0>>),
          File("combineVoiceToBgAudio", << <<"voice.wav", 0>>, bgMusic >>, <<"audio.wav", 0>>),
          Step("getListOfDurations"),
          Step("createImages"),
          Step("getAudioDuration"),
          Step("start") >>

\* a Topic sequence that resamples the voice track before the music is
\* mixed under it
TopicVideo_generateVideo_resampleFirst(d, o) ==
    << Step("checkJson"), Step("checkTempPath"),
       Voice(<<"voice.wav", 0>>, TRUE) >>
    \o Opt("extra" \in d.fields, << Voice(<<"extra.wav", 0>>, TRUE) >>)
    \o << File("combineVoiceFiles", <<>>, <<"voice_full.wav", 0>>),
          Step("genAudio16K") >>
    \o Opt(o.useBgMusic,
           << File("combineVoiceToBgAudio", << <<"voice_full.wav", 0>>, bgMusic >>, <<"audio.wav", 0>>) >>)
    \o << Images(d.m, NoFile),
          Step("generateSubtitles"),
          Step("getAudioDuration"),
          Step("start") >>

\* TopicVideo.generateVideo
TopicVideo_generateVideo(d, o) ==
    << Step("checkJson"), Step("checkTempPath"),
       Voice(<<"voice.wav", 0>>, TRUE) >>
    \o Opt("extra" \in d.fields, << Voice(<<"extra.wav", 0>>, TRUE) >>)
    \o << File("combineVoiceFiles", <<>>, <<"voice_full.wav", 0>>) >>
    \o Opt(o.useBgMusic,
           << File("combineVoiceToBgAudio", << <<"voice_full.wav", 0>>, bgMusic >>, <<"audio.wav", 0>>) >>)
    \o << Step("genAudio16K"),
          Images(d.m, NoFile),
          Step("generateSubtitles"),
          Step("getAudioDuration"),
          Step("start") >>

\* QuizVideo.generateVideo
QuizVideo_generateVideo(d, o) ==
    << Step("checkJson"), Step("checkTempPath") >>
    \o Opt("start_script" \in d.fields, << Voice(<<"start.wav", 0>>, TRUE) >>)
    \o Flatten([ i \in 1..d.n |->
          << Voice(<<"question.wav", i - 1>>, FALSE),
             Voice(<<"answer.wav", i - 1>>, FALSE),
             Merge("mergeMultiAudio",
                   << <<"question.wav", i - 1>>, clock, <<"answer.wav", i - 1>> >>,
                   <<"question-full.wav", i - 1>>) >> ])
    \o Opt("end_script" \in d.fields, << Voice(<<"end.wav", 0>>, TRUE) >>)
    \o << File("combineVoiceFiles", <<>>, <<"voice.wav", 0>>),
          Step("getListOfDurations"),
          File("combineVoiceToBgAudio", << <<"voice.wav", 0>>, bgMusic >>, <<"audio.wav", 0>>),
          Step("genAudio16K"),
          Step("generateSubtitles"),
          Step("getAudioDuration"),
          Step("start") >>

\* a Rank sequence that keeps the bare voice of a ranking next to its
\* cue-merged clip
RankVideo_generateVideo_bareVoice(d, o) ==
    << Step("checkJson"), Step("checkTempPath") >>
    \o Opt("start_script" \in d.fields, << Voice(<<"start.wav", 0>>, TRUE) >>)
    \o Flatten([ i \in 1..d.n |->
          << Voice(<<"rank.wav", i - 1>>, TRUE),
             Merge("mergeAudio", << <<"rank.wav", i - 1>>, tick >>, <<"rank-full.wav", i - 1>>) >> ])
    \o Opt("end_script" \in d.fields, << Voice(<<"end.wav", 0>>, TRUE) >>)
    \o << File("combineVoiceFiles", <<>>, <<"voice.wav", 0>>),
          Step("getListOfDurations") >>
    \o Opt(o.useBgMusic,
           << File("combineVoiceToBgAudio", << <<"voice.wav", 0>>, bgMusic >>, <<"audio.wav", 0>>) >>)
    \o << Images(d.m, NoFile),
          Step("createImages"),
          Step("getAudioDuration"),
          Step("start") >>

\* RankVideo.generateVideo
RankVideo_generateVideo(d, o) ==
    << Step("checkJson"), Step("checkTempPath") >>
    \o Opt("start_script" \in d.fields, << Voice(<<"start.wav", 0>>, TRUE) >>)
    \o Flatten([ i \in 1..d.n |->
          << Voice(<<"rank.wav", i - 1>>, FALSE),
             Merge("mergeAudio", << <<"rank.wav", i - 1>>, tick >>, <<"rank-full.wav", i - 1>>) >> ])
    \o Opt("end_script" \in d.fields, << Voice(<<"end.wav", 0>>, TRUE) >>)
    \o << File("combineVoiceFiles", <<>>, <<"voice.wav", 0>>),
          Step("getListOfDurations") >>
    \o Opt(o.useBgMusic,
           << File("combineVoiceToBgAudio", << <<"voice.wav", 0>>, bgMusic >>, <<"audio.wav", 0>>) >>)
    \o << Images(d.m, NoFile),
          Step("createImages"),
          Step("getAudioDuration"),
          Step("start") >>

\* RatherVideo.generateVideo
RatherVideo_generateVideo(d, o) ==
    << Step("checkJson"), Step("checkOrientation"), Step("checkTempPath") >>
    \o Opt("start_script" \in d.fields, << Voice(<<"start.wav", 0>>, TRUE) >>)
    \o Flatten([ i \in 1..d.n |->
          << Voice(<<"question.wav", i - 1>>, FALSE),
             Merge("mergeAudio", << <<"question.wav", i - 1>>, tick >>, <<"question-full.wav", i - 1>>) >> ])
    \o Opt("end_script" \in d.fields, << Voice(<<"end.wav", 0>>, TRUE) >>)
    \o << File("combineVoiceFiles", <<>>, <<"voice.wav", 0>>),
          Step("getListOfDurations"),
          File("combineVoiceToBgAudio", << <<"voice.wav", 0>>, bgMusic >>, <<"audio.wav", 0>>) >>
    \o Flatten([ i \in 1..d.n |->
          << Images(1, <<"image-q-1.png", i - 1>>), Images(1, <<"image-q-2.png", i - 1>>) >> ])
    \o << Step("createImages"),
          Step("getAudioDuration"),
          Step("start") >>

\* the switch of genVideo: the generator class chosen by the type tag
generateVideo(d, o) ==
    CASE d.type = "topic"   -> TopicVideo_generateVideo(d, o)
      [] d.type = "message" -> MsgVideo_generateVideo(d, o)
      [] d.type = "rather"  -> RatherVideo_generateVideo(d, o)
      [] d.type = "rank"    -> RankVideo_generateVideo(d, o)
      [] d.type = "quiz"    -> QuizVideo_generateVideo(d, o)
      [] OTHER              -> <<>>

\* ------------------------------------------------------------- the state
VARIABLES
    call,         \* the entry point the caller used, and its argument
    options,      \* the VideoOptions of the run
    jsonData,     \* VideoGen.jsonData, the parsed document
    vid,          \* the generator class genVideo constructed, or "none"
    resChecked,   \* checkResDir has looked at the resource folders
    plan,         \* the awaited calls of vid.generateVideo(), in program order
    pc,           \* index of the next awaited call of generateVideo()
    promise,      \* the promise genVideo returned to the caller
    tempPath,     \* "none", or the workspace checkTempPath created
    files,        \* the files of the workspace, with their play duration
    voiceFiles,   \* the array voiceFiles of generateVideo()
    audioFile,    \* the audio file given to the renderer
    durations,    \* the array durations of generateVideo()
    imgs,         \* the resolved image paths
    fullDuration, \* the duration measured from audioFile
    timeline,     \* the entries and total duration handed to FFCreator
    creator,      \* FFCreator: "none", "started", "complete", "error"
    progress,     \* number of 'progress' events emitted
    listening,    \* the caller has registered its listeners on the emitter
    logged,       \* every message passed to VideoGen.log
    delivered,    \* the messages a 'log' listener of the caller received
    events,       \* the 'done' events the caller received
    failure,      \* the first failure a collaborator reported in this run
    issued        \* the calls that touch files or collaborators, in order

\* several runs in one process that share the configured temp path
VARIABLES
    tasks,        \* per task: its state, its this.tempPath, the files it wrote
    disk,         \* the folders at and below the temp path, with their files
    trespass      \* what a task did to the workspace of an unfinished task

tasksVars == << tasks, disk, trespass >>

idleTasks == tasks = << >> /\ disk = << >> /\ trespass = {}

\* the duration prober, one ffprobe callback at a time
VARIABLES
    probes,       \* per probed file: what ffprobe hands to the callback, and
                  \* what the callback did
    settled,      \* per probed file: the promise made around ffprobe
    completed,    \* the probes whose callback has run, in that order
    returned,     \* the promise the prober returns to generateVideo()
    uncaught      \* the exceptions thrown out of ffprobe callbacks

probeVars == << probes, settled, completed, returned, uncaught >>

\* a promise: its state, the value it resolved with or the reason it
\* rejected with
Pending == [state |-> "pending", value |-> 0, reason |-> ""]

idleProbe ==
    /\ probes = << >> /\ settled = << >> /\ completed = << >>
    /\ returned = [fn |-> "none", state |-> "pending", value |-> << >>, reason |-> ""]
    /\ uncaught = 0

\* the subtitle writer, one line of the transcript at a time
VARIABLES
    transcript,   \* the segments the transcriber returned
    srt,          \* the blocks appended to the string srt so far
    idx,          \* the index the next block gets
    srtWritten    \* the subtitle file: whether written, and its blocks

srtVars == << transcript, srt, idx, srtWritten >>

NoSrt == [written |-> FALSE, blocks |-> << >>]

idleSrt == transcript = << >> /\ srt = << >> /\ idx = 0 /\ srtWritten = NoSrt

\* the API server, one POST /generateVideo request
VARIABLES
    handler,      \* where the request handler is
    task,         \* the run genVideoWithJson returned: what it may still emit
    listeners,    \* the listeners the handler attached and never removes
    client,       \* whether the client still holds the connection
    res           \* the response: ended or not, and the writes made to it

serverVars == << handler, task, listeners, client, res >>

idleServer ==
    /\ handler = [pc |-> "idle", json |-> "undefined"]
    /\ task = [state |-> "none", logs |-> 0] /\ listeners = {} /\ client = "none"
    /\ res = [ended |-> FALSE, writes |-> << >>, afterEnd |-> << >>]

\* the variables of the other specifications, at rest during a single run
otherVars == << tasksVars, probeVars, srtVars, serverVars >>

idleOthers == idleTasks /\ idleProbe /\ idleSrt /\ idleServer

runVars == << call, options, jsonData, vid, resChecked, plan, pc, promise, tempPath,
              files, voiceFiles, audioFile, durations, imgs, fullDuration,
              timeline, creator, progress, listening, logged, delivered,
              events, failure, issued >>

vars == << runVars, otherVars >>

NoError == [message |-> "", names |-> ""]
Err(m, x) == [message |-> m, names |-> x]
NoFailure == [op |-> "none", pc |-> 0, provider |-> "none"]
NoTimeline == [duration |-> 0, entries |-> <<>>]

Init ==
    /\ call \in { [fn |-> "genVideo", arg |-> x] : x \in JsonStrings }
           \cup { [fn |-> "genVideoWithJson", arg |-> x] : x \in JsonData }
    /\ options \in VideoOptions
    /\ jsonData = NonObject("null")
    /\ vid = "none"
    /\ resChecked = FALSE
    /\ plan = << >>
    /\ pc = 0
    /\ promise = [state |-> "pending", error |-> NoError]
    /\ tempPath = "none"
    /\ files \in { << >>, Write(<< >>, staleFile, 0) }
    /\ voiceFiles = << >>
    /\ audioFile = NoFile
    /\ durations = << >>
    /\ imgs = << >>
    /\ fullDuration = 0
    /\ timeline = NoTimeline
    /\ creator = "none"
    /\ progress = 0
    /\ listening = FALSE
    /\ logged = {}
    /\ delivered = {}
    /\ events = << >>
    /\ failure = NoFailure
    /\ issued = << >>
    /\ idleOthers

\* ------------------------------------------------------------ primitives
\* VideoGen.log: console output when debug is set, a 'log' event otherwise;
\* an event reaches only the listeners registered when it is emitted
log(msgs) ==
    /\ logged' = logged \cup msgs
    /\ delivered' = IF options.internalOptions.debug \/ ~listening
                    THEN delivered
                    ELSE delivered \cup msgs

\* a throw inside the async function: the promise of the caller rejects
reject(e) == promise' = [state |-> "rejected", error |-> e]

\* a collaborator reported a failure during the current step
fails(op, provider) ==
    failure' = IF failure.op = "none"
               THEN [op |-> op, pc |-> pc, provider |-> provider]
               ELSE failure

Exists(f) == f \in DOMAIN files \/ f \in ResFiles

Dur(f) == IF f \in DOMAIN files THEN files[f]
          ELSE IF f = bgMusic THEN BgDur ELSE CueDur

\* a call of a collaborator or of the file system: its inputs, the file it
\* writes, and the value of this.tempPath its paths were joined to
issue(op, ins, out) ==
    issued' = Append(issued, [op |-> op, ins |-> ins, out |-> out, dir |-> tempPath])

\* generateVideo() is suspended before its awaited call `op`
at(op) ==
    /\ promise.state = "pending"
    /\ pc \in 1..Len(plan)
    /\ plan[pc].op = op

step == plan[pc]

\* ---------------------------------------------------------- entry points
\* checkResDir: throws when resPath lacks one of models, vid, music
checkResDir(o) == o.resOk

\* genVideo with the type tag tested before the resource folders
genVideoBody_typeFirst(jsonDataStr) ==
    IF jsonDataStr.kind \in {"undefined", "empty"}
    THEN /\ reject(Err("Empty JSON data!", ""))
         /\ UNCHANGED << jsonData, vid, resChecked, plan, pc >>
    ELSE IF jsonDataStr.kind = "garbage"
    THEN /\ reject(Err("Invalid JSON data!", ""))
         /\ UNCHANGED << jsonData, vid, resChecked, plan, pc >>
    ELSE IF jsonDataStr.value.json = "null"
    THEN \* null["type"] throws inside the async function
         /\ reject(Err("TypeError: Cannot read properties of null (reading 'type')", ""))
         /\ UNCHANGED << jsonData, vid, resChecked, plan, pc >>
    ELSE IF jsonDataStr.value.type = "undefined"
    THEN /\ reject(Err("Invalid JSON data! Missing 'type' field.", ""))
         /\ UNCHANGED << jsonData, vid, resChecked, plan, pc >>
    ELSE IF jsonDataStr.value.type \notin ShapeTypes
    THEN /\ reject(Err("Invalid video type!", ""))
         /\ UNCHANGED << jsonData, vid, resChecked, plan, pc >>
    ELSE IF ~checkResDir(options)
    THEN /\ reject(Err("Resource folder is missing folder", "resPath"))
         /\ resChecked' = TRUE
         /\ UNCHANGED << jsonData, vid, plan, pc >>
    ELSE IF jsonDataStr.value.type \in ShapeTypes
    THEN /\ jsonData' = jsonDataStr.value
         /\ vid' = jsonDataStr.value.type
         /\ plan' = generateVideo(jsonDataStr.value, options)
         /\ resChecked' = TRUE
         /\ pc' = 1
         /\ UNCHANGED promise
    ELSE /\ reject(Err("Invalid video type!", ""))
         /\ resChecked' = TRUE
         /\ UNCHANGED << jsonData, vid, plan, pc >>

\* The body of genVideo up to the call of generateVideo(): the emptiness
\* test, JSON.parse, the test of jsonData["type"], checkResDir, the switch.
genVideoBody(jsonDataStr) ==
    IF jsonDataStr.kind \in {"undefined", "empty"}
    THEN /\ reject(Err("Empty JSON data!", ""))
         /\ UNCHANGED << jsonData, vid, resChecked, plan, pc >>
    ELSE IF jsonDataStr.kind = "garbage"
    THEN /\ reject(Err("Invalid JSON data!", ""))
         /\ UNCHANGED << jsonData, vid, resChecked, plan, pc >>
    ELSE IF jsonDataStr.value.json = "null"
    THEN \* null["type"] throws inside the async function
         /\ reject(Err("TypeError: Cannot read properties of null (reading 'type')", ""))
         /\ UNCHANGED << jsonData, vid, resChecked, plan, pc >>
    ELSE IF jsonDataStr.value.type = "undefined"
    THEN /\ reject(Err("Invalid JSON data! Missing 'type' field.", ""))
         /\ UNCHANGED << jsonData, vid, resChecked, plan, pc >>
    ELSE IF ~checkResDir(options)
    THEN /\ reject(Err("Resource folder is missing folder", "resPath"))
         /\ resChecked' = TRUE
         /\ UNCHANGED << jsonData, vid, plan, pc >>
    ELSE IF jsonDataStr.value.type \in ShapeTypes
    THEN /\ jsonData' = jsonDataStr.value
         /\ vid' = jsonDataStr.value.type
         /\ plan' = generateVideo(jsonDataStr.value, options)
         /\ resChecked' = TRUE
         /\ pc' = 1
         /\ UNCHANGED promise
    ELSE /\ reject(Err("Invalid video type!", ""))
         /\ resChecked' = TRUE
         /\ UNCHANGED << jsonData, vid, plan, pc >>

pipelineVars == << tempPath, files, voiceFiles, audioFile, durations, imgs,
                   fullDuration, timeline, creator, progress, listening,
                   logged, delivered, events, failure, issued, otherVars >>

genVideo ==
    /\ call.fn = "genVideo"
    /\ pc = 0 /\ promise.state = "pending"
    /\ genVideoBody(call.arg)
    /\ UNCHANGED << call, options, pipelineVars >>

genVideoWithJson ==
    /\ call.fn = "genVideoWithJson"
    /\ pc = 0 /\ promise.state = "pending"
    /\ genVideoBody(stringify(call.arg))
    /\ UNCHANGED << call, options, pipelineVars >>

\* ------------------------------------------------------------ validation
RequiredFields(t) ==
    CASE t = "message" -> {"contactname", "script"}
      [] t = "topic"   -> {"text"}
      [] t = "quiz"    -> {"title", "questions"}
      [] t = "rank"    -> {"rankings", "images", "start_script", "end_script"}
      [] t = "rather"  -> {"questions", "start_script", "end_script"}
      [] OTHER         -> {}

entryVars == << call, options, jsonData, vid, resChecked, plan, otherVars >>

checkJson ==
    /\ at("checkJson")
    /\ IF RequiredFields(jsonData.type) \subseteq jsonData.fields
       THEN pc' = pc + 1 /\ UNCHANGED promise
       ELSE reject(Err("JSON data is missing required fields!", "")) /\ UNCHANGED pc
    /\ UNCHANGED << entryVars, pipelineVars >>

\* RatherVideo.generateVideo: the orientation test between checkJson and
\* checkTempPath
checkOrientation ==
    /\ at("checkOrientation")
    /\ IF options.orientation = "horizontal"
       THEN reject(Err("Rather video does not support horizontal orientation as of now.", ""))
            /\ UNCHANGED pc
       ELSE pc' = pc + 1 /\ UNCHANGED promise
    /\ UNCHANGED << entryVars, pipelineVars >>

\* (Math.random() + 1).toString(36).substring(7): some characters, or none
\* when the number has five digits or fewer after the point
Ids == {"", "id"}

\* path.join(this.tempPath, id); joining the empty id gives the configured
\* temp path itself, which exists
uniqueFolder(id) == IF id = "" THEN "tempPath" ELSE "tempPath/id"

\* VideoGen.checkTempPath: a fresh, empty folder under tempPath, an
\* existing folder of the same id being removed first; mkdirSync throws
\* when the folder cannot be created
checkTempPath ==
    /\ at("checkTempPath")
    /\ \E ok \in BOOLEAN, id \in Ids :
         IF ok
         THEN /\ tempPath' = uniqueFolder(id)
              /\ files' = << >>
              /\ log({"Starting video generation...",
                      IF id # "" /\ files = << >>
                      THEN "Temp directory created successfully!"
                      ELSE "Temp directory already exists! Deleting and creating a new one..."})
              /\ pc' = pc + 1
              /\ UNCHANGED promise
         ELSE /\ log({"Starting video generation..."})
              /\ reject(Err("mkdir failed", ""))
              /\ UNCHANGED << tempPath, files, pc >>
    /\ UNCHANGED << entryVars, voiceFiles, audioFile, durations, imgs,
                    fullDuration, timeline, creator, progress, listening,
                    events, failure, issued >>

\* ----------------------------------------------------------- audio stages
pushVoice == voiceFiles' = IF step.push THEN Append(voiceFiles, step.out) ELSE voiceFiles

\* the error a voice provider throws: NeetsTTSVoice wraps the HTTP status
\* in an error that names it, ElevenLabsVoice passes the client's error on
VoiceError(t) ==
    IF t = "NeetsTTS" THEN Err("NeetsTTS API error", "NeetsTTS")
    ELSE Err("error of the voice client", "")

\* VideoGen.generateVoice with tts.*.generateVoice.  BuiltinTTSVoice logs
\* the error of say.export and resolves; the other providers reject.
generateVoice ==
    /\ at("generateVoice")
    /\ IF options.internalOptions.disableTTS
       THEN /\ pushVoice
            /\ pc' = pc + 1
            /\ UNCHANGED << files, promise, failure, logged, delivered, issued >>
       ELSE \E ok \in BOOLEAN, d \in 0..MaxDur :
              /\ issue("generateVoice", << >>, step.out)
              /\ IF ok
                 THEN /\ files' = Write(files, step.out, d)
                      /\ log({"Voice created"})
                      /\ pushVoice
                      /\ pc' = pc + 1
                      /\ UNCHANGED << promise, failure >>
                 ELSE IF options.voiceGenType = "BuiltinTTS"
                 THEN /\ log({"[ignoring] Error creating voice", "Voice created"})
                      /\ fails("generateVoice", "BuiltinTTS")
                      /\ pushVoice
                      /\ pc' = pc + 1
                      /\ UNCHANGED << files, promise >>
                 ELSE /\ reject(VoiceError(options.voiceGenType))
                      /\ fails("generateVoice", options.voiceGenType)
                      /\ UNCHANGED << files, voiceFiles, pc, logged, delivered >>
    /\ UNCHANGED << entryVars, tempPath, audioFile, durations, imgs, fullDuration,
                    timeline, creator, progress, listening, events >>

\* ffmpeg concatenation (mergeToFile): the inputs one after the other
concatDuration(ins) == reduceSum([ i \in 1..Len(ins) |-> Dur(ins[i]) ])

\* the amix filter with duration=longest
amixDuration_longest(voice, bg) == Max(Dur(voice), Dur(bg))

\* the amix filter with duration=first: as long as the first input
amixDuration(voice, bg) == Dur(voice)

\* one ffmpeg command of VideoGen: it ends, or emits 'error' and the
\* promise rejects; a missing input file is an error
ffmpeg(op, ins, out, d) ==
    /\ issue(op, ins, out)
    /\ \E ok \in BOOLEAN :
         IF ok /\ ins # << >> /\ \A i \in 1..Len(ins) : Exists(ins[i])
         THEN /\ files' = Write(files, out, d)
              /\ pc' = pc + 1
              /\ UNCHANGED << promise, failure >>
         ELSE /\ reject(Err("ffmpeg error", ""))
              /\ fails(op, "ffmpeg")
              /\ UNCHANGED << files, pc >>

\* VideoGen.mergeAudio: the voice, then the cue, in one clip
mergeAudio ==
    /\ at("mergeAudio")
    /\ ffmpeg("mergeAudio", step.ins, step.out, concatDuration(step.ins))
    /\ IF promise' = promise
       THEN pushVoice /\ log({"Full clock file created"})
       ELSE UNCHANGED << voiceFiles, logged, delivered >>
    /\ UNCHANGED << entryVars, tempPath, audioFile, durations, imgs, fullDuration,
                    timeline, creator, progress, listening, events >>

\* VideoGen.mergeMultiAudio: question, clock cue, answer in one clip
mergeMultiAudio ==
    /\ at("mergeMultiAudio")
    /\ ffmpeg("mergeMultiAudio", step.ins, step.out, concatDuration(step.ins))
    /\ IF promise' = promise
       THEN pushVoice /\ log({"Full clock file created"})
       ELSE UNCHANGED << voiceFiles, logged, delivered >>
    /\ UNCHANGED << entryVars, tempPath, audioFile, durations, imgs, fullDuration,
                    timeline, creator, progress, listening, events >>

\* VideoGen.combineVoiceFiles: the master voice track
combineVoiceFiles ==
    /\ at("combineVoiceFiles")
    /\ log({"Voices created successfully!", "Creating single audio file from all voice files..."})
    /\ ffmpeg("combineVoiceFiles", voiceFiles, step.out, concatDuration(voiceFiles))
    /\ audioFile' = IF promise' = promise THEN step.out ELSE audioFile
    /\ UNCHANGED << entryVars, tempPath, voiceFiles, durations, imgs, fullDuration,
                    timeline, creator, progress, listening, events >>

\* VideoGen.combineVoiceToBgAudio: music under the voice track
combineVoiceToBgAudio ==
    /\ at("combineVoiceToBgAudio")
    /\ log({"Overlaying background audio on top of the voice audio file..."})
    /\ ffmpeg("combineVoiceToBgAudio", step.ins, step.out, amixDuration(step.ins[1], step.ins[2]))
    /\ audioFile' = IF promise' = promise THEN step.out ELSE audioFile
    /\ UNCHANGED << entryVars, tempPath, voiceFiles, durations, imgs, fullDuration,
                    timeline, creator, progress, listening, events >>

audio16kFile == <<"audio16k.wav", 0>>
srtFile == <<"audio16k.wav.srt", 0>>

\* VideoGen.genAudio16K: the audio of the video, resampled for whisper
genAudio16K ==
    /\ at("genAudio16K")
    /\ ffmpeg("genAudio16K", << audioFile >>, audio16kFile, Dur(audioFile))
    /\ UNCHANGED << entryVars, tempPath, voiceFiles, audioFile, durations, imgs,
                    fullDuration, timeline, creator, progress, listening,
                    logged, delivered, events >>

\* the orders in which k probes issued together can complete
Orders(k) == Permutations(1..k)

RECURSIVE settle(_, _, _)
settle(result, order, values) ==
    IF order = << >> THEN result
    ELSE settle([result EXCEPT ![Head(order)] = values[Head(order)]], Tail(order), values)

\* an array filled in the order the promises settle
PromiseAll_completionOrder(values, order) == [ i \in 1..Len(values) |-> values[order[i]] ]

\* Promise.all: element i of the result is the value of promise i,
\* whatever the order the promises settle in
PromiseAll(values, order) == settle([ i \in 1..Len(values) |-> 0 ], order, values)

\* VideoGen.getListOfDurations: Promise.all over one ffprobe per file
getListOfDurations ==
    /\ at("getListOfDurations")
    /\ log({"Making list of durations for each audio file..."})
    /\ issue("ffprobe", voiceFiles, NoFile)
    /\ \E ok \in BOOLEAN :
         IF ok /\ \A i \in 1..Len(voiceFiles) : Exists(voiceFiles[i])
         THEN /\ \E order \in Orders(Len(voiceFiles)) :
                   durations' = PromiseAll([ i \in 1..Len(voiceFiles) |-> Dur(voiceFiles[i]) ], order)
              /\ pc' = pc + 1
              /\ UNCHANGED << promise, failure >>
         ELSE /\ reject(Err("ffprobe error", ""))
              /\ fails("getListOfDurations", "ffprobe")
              /\ UNCHANGED << durations, pc >>
    /\ UNCHANGED << entryVars, tempPath, files, voiceFiles, audioFile, imgs,
                    fullDuration, timeline, creator, progress, listening, events >>

\* VideoGen.getAudioDuration of the audio file of the video
getAudioDuration ==
    /\ at("getAudioDuration")
    /\ issue("ffprobe", << audioFile >>, NoFile)
    /\ \E ok \in BOOLEAN :
         IF ok /\ Exists(audioFile)
         THEN /\ fullDuration' = Dur(audioFile)
              /\ log({"Full duration of audio"})
              /\ pc' = pc + 1
              /\ UNCHANGED << promise, failure >>
         ELSE /\ reject(Err("ffprobe error", ""))
              /\ fails("getAudioDuration", "ffprobe")
              /\ UNCHANGED << fullDuration, pc, logged, delivered >>
    /\ UNCHANGED << entryVars, tempPath, files, voiceFiles, audioFile, durations,
                    imgs, timeline, creator, progress, listening, events >>

\* VideoGen.generateSubtitles: whisper on the 16 kHz file, unless disabled
generateSubtitles ==
    /\ at("generateSubtitles")
    /\ IF options.internalOptions.disableSubtitles
       THEN /\ log({"Creating subtitles from text..."})
            /\ pc' = pc + 1
            /\ UNCHANGED << files, promise, failure, issued >>
       ELSE \E ok \in BOOLEAN :
              /\ issue("transcribeSrt", << audio16kFile >>, srtFile)
              /\ IF ok /\ Exists(audio16kFile)
                 THEN /\ files' = Write(files, srtFile, 0)
                      /\ log({"Creating subtitles from text...", "[whisper] Maunally freed whisper"})
                      /\ pc' = pc + 1
                      /\ UNCHANGED << promise, failure >>
                 ELSE /\ log({"Creating subtitles from text..."})
                      /\ reject(Err("error of whisper", ""))
                      /\ fails("generateSubtitles", "Whisper")
                      /\ UNCHANGED << files, pc >>
    /\ UNCHANGED << entryVars, tempPath, voiceFiles, audioFile, durations, imgs,
                    fullDuration, timeline, creator, progress, listening, events >>

\* ----------------------------------------------------------- image stages
\* a file name that ignores the prefix
ImagePath_indexOnly(prefix, index) == <<"image.png", index>>

\* image-${filePrefix ?? index}.png
ImagePath(prefix, index) == IF prefix # NoFile THEN prefix ELSE <<"image.png", index>>

ImagePaths(prefix, k) == [ i \in 1..k |-> ImagePath(prefix, i - 1) ]

RECURSIVE WriteAll(_, _)
WriteAll(fs, paths) ==
    IF paths = << >> THEN fs ELSE WriteAll(Write(fs, Head(paths), 0), Tail(paths))

\* what generateVideo() keeps of the result of generateImages: the whole
\* list (Topic, Rank), or its first element for one side of a question
keepImages(result) ==
    IF step.out = NoFile THEN result
    ELSE imgs \o << IF result = << >> THEN Undefined ELSE result[1] >>

\* VideoGen.generateImages with img.*.generateImages.  Without changePhotos
\* the paths are computed and nothing is fetched.  PexelsImageGen throws on
\* a failed search or download.  GoogleScraperImageGen.imgScrape catches
\* every error and returns undefined, and finds at most one image per
\* query, so it yields between 0 and k images, numbered from 0.
generateImages ==
    /\ at("generateImages")
    /\ IF jsonData.type = "topic" /\ "images" \notin jsonData.fields
       THEN /\ reject(Err("JSON data is missing required \"images\" field!", ""))
            /\ UNCHANGED << imgs, files, pc, failure, logged, delivered, issued >>
       ELSE IF ~options.internalOptions.changePhotos
       THEN /\ imgs' = keepImages(ImagePaths(step.out, step.k))
            /\ pc' = pc + 1
            /\ UNCHANGED << files, promise, failure, logged, delivered, issued >>
       ELSE IF options.imageGenType = "Pexels"
       THEN \E ok \in BOOLEAN :
              /\ issue("generateImages", << >>, ImagePath(step.out, 0))
              /\ IF ok
                 THEN /\ files' = WriteAll(files, ImagePaths(step.out, step.k))
                      /\ imgs' = keepImages(ImagePaths(step.out, step.k))
                      /\ log({"Image downloaded successfully"})
                      /\ pc' = pc + 1
                      /\ UNCHANGED << promise, failure >>
                 ELSE /\ reject(Err("error of the image client", ""))
                      /\ fails("generateImages", "Pexels")
                      /\ UNCHANGED << imgs, files, pc, logged, delivered >>
       ELSE \E ok \in BOOLEAN, u \in 0..step.k :
              /\ issue("generateImages", << >>, ImagePath(step.out, 0))
              /\ IF ok
                 THEN /\ files' = WriteAll(files, ImagePaths(step.out, u))
                      /\ imgs' = keepImages(ImagePaths(step.out, u))
                      /\ log({"Image generated"})
                      /\ pc' = pc + 1
                      /\ UNCHANGED << promise, failure >>
                 ELSE /\ imgs' = keepImages(<< >>)
                      /\ fails("generateImages", "GoogleScraper")
                      /\ pc' = pc + 1
                      /\ UNCHANGED << files, promise, logged, delivered >>
    /\ UNCHANGED << entryVars, tempPath, voiceFiles, audioFile, durations,
                    fullDuration, timeline, creator, progress, listening, events >>

\* the images loadImage() must read before the scenes can be drawn:
\* rankImages[0] and rankImages[index] per ranking (Rank), both images of
\* every question (Rather), none (Message)
NeededImages ==
    CASE jsonData.type = "rank" ->
           { 1 } \cup 1..jsonData.n
      [] jsonData.type = "rather" ->
           1..(2 * jsonData.n)
      [] OTHER -> {}

Loadable(i) == i \in 1..Len(imgs) /\ imgs[i] \in DOMAIN files

\* the images the canvas code writes into the workspace
DrawnImages ==
    CASE jsonData.type = "message" ->
           << <<"msg_header.png", 0>> >> \o [ i \in 1..jsonData.n |-> <<"message.png", i - 1>> ]
      [] jsonData.type = "rank" ->
           << <<"start.png", 0>> >> \o [ i \in 1..jsonData.n |-> <<"rank.png", i - 1>> ]
      [] jsonData.type = "rather" ->
           [ i \in 1..jsonData.n |-> <<"question.png", i - 1>> ]
      [] OTHER -> << >>

\* The canvas part of generateVideo(): loadImage() throws on an undefined
\* or unreadable path, and on a missing resource image.
createImages ==
    /\ at("createImages")
    /\ issue("createImages", << >>, NoFile)
    /\ \E ok \in BOOLEAN :
         IF ok /\ \A i \in NeededImages : Loadable(i)
         THEN /\ files' = WriteAll(files, DrawnImages)
              /\ log({"Creating images..."})
              /\ pc' = pc + 1
              /\ UNCHANGED << promise, failure >>
         ELSE /\ log({"Creating images..."})
              /\ reject(Err("error of loadImage", ""))
              /\ fails("createImages", "canvas")
              /\ UNCHANGED << files, pc >>
    /\ UNCHANGED << entryVars, tempPath, voiceFiles, audioFile, durations, imgs,
                    fullDuration, timeline, creator, progress, listening, events >>

\* -------------------------------------------------------------- timeline
\* One visual element handed to FFCreator: `start` is the delay of its
\* fadeIn effect (bubble, answer, percent) or the time its scene begins
\* (scene); `dur` is the argument of setDuration, the time per image for
\* the album, and 0 where generateVideo() sets none.
Entry(kind, index, start, dur) == [kind |-> kind, index |-> index, start |-> start, dur |-> dur]

\* a bubble that waits for its own clip as well
MsgVideo_imgStartDuration_own(ds, index) == reduceSum(slice0(ds, index + 1))

\* MsgVideo: bubble `index` fades in after the clips before it
MsgVideo_imgStartDuration(ds, index) == reduceSum(slice0(ds, index))

MsgVideo_timeline(d, ds, full) ==
    [ i \in 1..d.n |->
        Entry("bubble", i - 1, MsgVideo_imgStartDuration(ds, i - 1),
              full - MsgVideo_imgStartDuration(ds, i - 1)) ]

\* TopicVideo: one album, each image shown Math.round(full / imgs.length)
TopicVideo_timeline(d, is, full) ==
    << Entry("album", Len(is), 0, roundDiv(full, Len(is))) >>

\* QuizVideo: answer `index` fades in one second before the end of the
\* first index + 2 clips
QuizVideo_question_start_duration(ds, index) == reduceSum(slice0(ds, index + 2)) - 1

QuizVideo_timeline(d, ds, full) ==
    [ i \in 1..d.n |->
        Entry("answer", i - 1, QuizVideo_question_start_duration(ds, i - 1), 0) ]

\* a last scene that does not absorb the end narration
RankVideo_duration_noEnd(ds, index, count) == orZero(ds, index)

\* RankVideo: scene `index` of the count scenes lasts as long as clip
\* `index`, the last scene also as long as the last clip
RankVideo_duration(ds, index, count) ==
    orZero(ds, index) + (IF index = count - 1 THEN last(ds) ELSE 0)

\* scenes play one after the other
SceneStart(sceneDur, i) == reduceSum([ j \in 1..(i - 1) |-> sceneDur[j] ])

RankVideo_timeline(d, ds, full) ==
    LET sceneDur == [ i \in 1..(d.n + 1) |-> RankVideo_duration(ds, i - 1, d.n + 1) ]
    IN  [ i \in 1..(d.n + 1) |-> Entry("scene", i - 1, SceneStart(sceneDur, i), sceneDur[i]) ]

\* a first scene that does not absorb the start narration
RatherVideo_duration_noStart(ds, index, count) ==
    orZero(ds, index + 1)
    + (IF index = count - 1 THEN last(ds) ELSE 0)

\* RatherVideo: scene `index` lasts as long as clip index + 1, the first
\* scene also as long as the first clip, the last as the last clip
RatherVideo_duration(ds, index, count) ==
    orZero(ds, index + 1)
    + (IF index = 0 THEN ds[1] ELSE 0)
    + (IF index = count - 1 THEN last(ds) ELSE 0)

\* the delay of the fadeIn of the percentage labels of scene `index`
RatherVideo_delayLen(ds, index, count) ==
    (IF RatherVideo_duration(ds, index, count) - 2 < 0
     THEN 0 ELSE RatherVideo_duration(ds, index, count) - 2)
    - (IF index = count - 1 THEN last(ds) ELSE 0)

RatherVideo_timeline(d, ds, full) ==
    LET sceneDur == [ i \in 1..d.n |-> RatherVideo_duration(ds, i - 1, d.n) ]
    IN  Flatten([ i \in 1..d.n |->
          << Entry("scene", i - 1, SceneStart(sceneDur, i), sceneDur[i]),
             Entry("percent1", i - 1, RatherVideo_delayLen(ds, i - 1, d.n), sceneDur[i]),
             Entry("percent2", i - 1, RatherVideo_delayLen(ds, i - 1, d.n), sceneDur[i]) >> ])

Compose ==
    CASE jsonData.type = "message" -> MsgVideo_timeline(jsonData, durations, fullDuration)
      [] jsonData.type = "topic"   -> TopicVideo_timeline(jsonData, imgs, fullDuration)
      [] jsonData.type = "quiz"    -> QuizVideo_timeline(jsonData, durations, fullDuration)
      [] jsonData.type = "rank"    -> RankVideo_timeline(jsonData, durations, fullDuration)
      [] jsonData.type = "rather"  -> RatherVideo_timeline(jsonData, durations, fullDuration)
      [] OTHER -> << >>

\* ---------------------------------------------------------------- render
\* The end of generateVideo(): creator.setDuration, the scenes, and
\* creator.start(); the listeners are attached and generateVideo()
\* returns, so genVideo returns the emitter.
start ==
    /\ at("start")
    /\ timeline' = [duration |-> fullDuration, entries |-> Compose]
    /\ creator' = "started"
    /\ pc' = pc + 1
    /\ promise' = [state |-> "resolved", error |-> NoError]
    /\ UNCHANGED << entryVars, tempPath, files, voiceFiles, audioFile, durations,
                    imgs, fullDuration, progress, listening, logged, delivered,
                    events, failure, issued >>

\* the caller, resumed with the emitter: task.on('log'), task.on('done')
callerListen ==
    /\ promise.state = "resolved"
    /\ ~listening
    /\ listening' = TRUE
    /\ UNCHANGED << entryVars, pc, promise, tempPath, files, voiceFiles, audioFile,
                    durations, imgs, fullDuration, timeline, creator, progress,
                    logged, delivered, events, failure, issued >>

renderVars == << entryVars, pc, promise, tempPath, files, voiceFiles, audioFile,
                 durations, imgs, fullDuration, timeline, listening, failure,
                 issued >>

\* creator.on('progress'): a log message
creatorProgress ==
    /\ creator = "started"
    /\ listening
    /\ progress < MaxProgress
    /\ progress' = progress + 1
    /\ log({"FFCreator progress"})
    /\ UNCHANGED << renderVars, creator, events >>

\* creator.on('complete'): a log message and the 'done' event
creatorComplete ==
    /\ creator = "started"
    /\ listening
    /\ creator' = "complete"
    /\ log({"FFCreator completed"})
    /\ events' = Append(events, "done")
    /\ UNCHANGED << renderVars, progress >>

\* creator.on('error'): a log message, nothing else
creatorError ==
    /\ creator = "started"
    /\ listening
    /\ creator' = "error"
    /\ log({"FFCreator error"})
    /\ UNCHANGED << renderVars, progress, events >>

Next ==
    \/ genVideo
    \/ genVideoWithJson
    \/ checkJson
    \/ checkOrientation
    \/ checkTempPath
    \/ generateVoice
    \/ mergeAudio
    \/ mergeMultiAudio
    \/ combineVoiceFiles
    \/ combineVoiceToBgAudio
    \/ genAudio16K
    \/ getListOfDurations
    \/ generateImages
    \/ generateSubtitles
    \/ createImages
    \/ getAudioDuration
    \/ start
    \/ callerListen
    \/ creatorProgress
    \/ creatorComplete
    \/ creatorError

Spec == Init /\ [][Next]_vars

\* ------------------------------------------------ several runs in one process
\* a run that has not been called: the variables of a single run at rest
idleRun ==
    /\ call = [fn |-> "genVideo", arg |-> [kind |-> "undefined", value |-> NonObject("null")]]
    /\ options = DefaultOptions
    /\ jsonData = NonObject("null")
    /\ vid = "none"
    /\ resChecked = FALSE
    /\ plan = << >>
    /\ pc = 0
    /\ promise = [state |-> "pending", error |-> NoError]
    /\ tempPath = "none"
    /\ files = << >>
    /\ voiceFiles = << >>
    /\ audioFile = NoFile
    /\ durations = << >>
    /\ imgs = << >>
    /\ fullDuration = 0
    /\ timeline = NoTimeline
    /\ creator = "none"
    /\ progress = 0
    /\ listening = FALSE
    /\ logged = {}
    /\ delivered = {}
    /\ events = << >>
    /\ failure = NoFailure
    /\ issued = << >>

\* the requests the server handles at the same time
MaxTasks == 2
\* the files a task writes into its workspace
MaxWrites == 2

Tasks == 1..MaxTasks

\* POST /generateVideo: every request runs genVideoWithJson with tempPath
\* 'video_temp'; the folder exists and is empty when the server starts
InitTasks ==
    /\ tasks = [ t \in Tasks |-> [state |-> "new", dir |-> "none", n |-> 0] ]
    /\ disk = [ f \in {uniqueFolder("")} |-> {} ]
    /\ trespass = {}
    /\ idleRun /\ idleProbe /\ idleSrt /\ idleServer

\* the unfinished tasks other than t whose workspace is, or lies in, folder
owners(t, folder) ==
    { u \in Tasks \ {t} :
        /\ tasks[u].state = "running"
        /\ (tasks[u].dir = folder \/ folder = uniqueFolder("")) }

\* fs.rmSync(folder, { recursive: true, force: true }); fs.mkdirSync(folder)
rmSync_mkdirSync(d, folder) ==
    IF folder = uniqueFolder("")
    THEN [ f \in {folder} |-> {} ]
    ELSE [ f \in DOMAIN d \cup {folder} |-> IF f = folder THEN {} ELSE d[f] ]

\* VideoGen.checkTempPath of task t, run to its end without a break: the id
\* is drawn, the folder of that id is removed if it exists and created
taskCheckTempPath ==
    \E t \in Tasks, id \in Ids :
      /\ tasks[t].state = "new"
      /\ disk' = rmSync_mkdirSync(disk, uniqueFolder(id))
      /\ tasks' = [tasks EXCEPT ![t] = [state |-> "running", dir |-> uniqueFolder(id), n |-> 0]]
      /\ trespass' = trespass \cup
           { [by |-> t, to |-> u, what |-> "delete"] : u \in owners(t, uniqueFolder(id)) }
      /\ UNCHANGED << runVars, probeVars, srtVars, serverVars >>

\* one stage of task t writes a file under this.tempPath; the write fails
\* and the run rejects when the folder is gone
taskWrite ==
    \E t \in Tasks :
      /\ tasks[t].state = "running"
      /\ tasks[t].n < MaxWrites
      /\ IF tasks[t].dir \in DOMAIN disk
         THEN /\ disk' = [disk EXCEPT ![tasks[t].dir] = @ \cup { <<t, tasks[t].n>> }]
              /\ tasks' = [tasks EXCEPT ![t].n = @ + 1]
              /\ trespass' = trespass \cup
                   { [by |-> t, to |-> u, what |-> "write"] :
                       u \in { v \in owners(t, tasks[t].dir) : tasks[v].dir = tasks[t].dir } }
         ELSE /\ tasks' = [tasks EXCEPT ![t].state = "failed"]
              /\ UNCHANGED << disk, trespass >>
      /\ UNCHANGED << runVars, probeVars, srtVars, serverVars >>

\* the renderer of task t completes
taskFinish ==
    \E t \in Tasks :
      /\ tasks[t].state = "running"
      /\ tasks[t].n = MaxWrites
      /\ tasks' = [tasks EXCEPT ![t].state = "finished"]
      /\ UNCHANGED << disk, trespass, runVars, probeVars, srtVars, serverVars >>

NextTasks ==
    \/ taskCheckTempPath
    \/ taskWrite
    \/ taskFinish

SpecTasks == InitTasks /\ [][NextTasks]_vars

\* ------------------------------------------------------ the duration prober
\* the files getListOfDurations probes in one call
MaxProbes == 2

\* metadata.format.duration when ffprobe reports none
NoDuration == -1

\* metadata.format.duration as ffprobe reports it: absent, or a number
Durations == {NoDuration} \cup 0..MaxDur

\* the second argument of the callback when ffprobe passes none
NoMetadata == [present |-> FALSE, duration |-> NoDuration]

\* what the callback of ffprobe receives: no error and the metadata, or an
\* error, with which fluent-ffmpeg passes no metadata or whatever it parsed
ProbeResults ==
    { [err |-> FALSE, metadata |-> [present |-> TRUE, duration |-> d]] : d \in Durations }
    \cup { [err |-> TRUE, metadata |-> NoMetadata] }
    \cup { [err |-> TRUE, metadata |-> [present |-> TRUE, duration |-> d]] : d \in {NoDuration, MaxDur} }

\* x that keeps an absent value
nullish_kept(x, y) == x

\* x ?? y
nullish(x, y) == IF x = NoDuration THEN y ELSE x

\* resolve(v) and reject(e): a promise settles once, later calls do nothing
resolvePromise(p, v) ==
    IF p.state = "pending" THEN [state |-> "resolved", value |-> v, reason |-> ""] ELSE p

rejectPromise(p, e) ==
    IF p.state = "pending" THEN [state |-> "rejected", value |-> 0, reason |-> e] ELSE p

\* The callback (err, metadata) => { if (err) reject(err);
\* resolve(metadata.format.duration ?? 0); }: what it does, in order, and
\* the promise it leaves.  Reading metadata.format of an absent metadata
\* throws a TypeError out of the callback.
callback(r, p) ==
    LET p1 == IF r.err THEN rejectPromise(p, "err") ELSE p
        d1 == IF r.err THEN << "reject" >> ELSE << >>
    IN  IF ~r.metadata.present
        THEN [promise |-> p1, did |-> d1 \o << "read metadata", "throw" >>]
        ELSE [promise |-> resolvePromise(p1, nullish(r.metadata.duration, 0)),
              did |-> d1 \o << "read metadata", "resolve" >>]

\* getAudioDuration(audioFile) or getListOfDurations(audioFiles) is called:
\* one ffprobe and one promise per file
InitProbe ==
    /\ \E fn \in {"getAudioDuration", "getListOfDurations"} :
         /\ returned = [fn |-> fn, state |-> "pending", value |-> << >>, reason |-> ""]
         /\ \E k \in (IF fn = "getAudioDuration" THEN {1} ELSE 0..MaxProbes) :
              /\ probes \in [1..k -> { [result |-> r, did |-> << >>] : r \in ProbeResults }]
              /\ settled = [ i \in 1..k |-> Pending ]
    /\ completed = << >>
    /\ uncaught = 0
    /\ idleRun /\ idleTasks /\ idleSrt /\ idleServer

\* the prober's promise: the promise of the one probe, or Promise.all of
\* the promises, which rejects with the first rejection and resolves with
\* the values by index; the value of getAudioDuration is kept as a list
\* of one
settleReturned(fn, ps, ord) ==
    LET rejected == { i \in 1..Len(ord) : ps[ord[i]].state = "rejected" }
        first == CHOOSE i \in rejected : \A j \in rejected : i <= j
    IN  IF rejected # {}
        THEN [fn |-> fn, state |-> "rejected", value |-> << >>, reason |-> ps[ord[first]].reason]
        ELSE IF Len(ord) = Len(ps) /\ \A i \in 1..Len(ps) : ps[i].state = "resolved"
        THEN [fn |-> fn, state |-> "resolved",
              value |-> PromiseAll([ i \in 1..Len(ps) |-> ps[i].value ], ord), reason |-> ""]
        ELSE [fn |-> fn, state |-> "pending", value |-> << >>, reason |-> ""]

\* ffprobe of one file ends and calls back
ffprobeCallback ==
    \E i \in 1..Len(probes) :
      /\ probes[i].did = << >>
      /\ LET c == callback(probes[i].result, settled[i])
             s == [settled EXCEPT ![i] = c.promise]
             o == Append(completed, i)
         IN  /\ probes' = [probes EXCEPT ![i].did = c.did]
             /\ settled' = s
             /\ completed' = o
             /\ uncaught' = uncaught + (IF c.did[Len(c.did)] = "throw" THEN 1 ELSE 0)
             /\ returned' = IF returned.state = "pending"
                            THEN settleReturned(returned.fn, s, o)
                            ELSE returned
      /\ UNCHANGED << runVars, tasksVars, srtVars, serverVars >>

NextProbe ==
    \/ ffprobeCallback

SpecProbe == InitProbe /\ [][NextProbe]_vars

\* ------------------------------------------------- the subtitle writer

MaxSegments == 2

Second == 1000
Minute == 60 * Second
Hour == 60 * Minute
Day == 24 * Hour

\* the times of a segment, in milliseconds from the start of the audio
Times == {0, 1, Second - 1, Second, Minute - 1, Minute, Hour - 1, Hour, Day - 1, Day}

\* the text of a segment, character by character
Texts == { << "a" >>, << " ", "a", " " >> }

Segments == [from : Times, to : Times, text : Texts]

\* the transcriber returns the segments in the order of the audio
Transcripts ==
    { t \in UNION { [1..n -> Segments] : n \in 0..MaxSegments } :
        /\ \A i \in 1..Len(t) : t[i].from <= t[i].to
        /\ \A i \in 1..(Len(t) - 1) : t[i].to <= t[i + 1].from }

\* n.toString(): the decimal digits of n
RECURSIVE toString(_)
toString(n) == IF n < 10 THEN << n >> ELSE Append(toString(n \div 10), n % 10)

\* str.padStart(width, "0")
RECURSIVE padStart(_, _)
padStart(str, width) ==
    IF Len(str) >= width THEN str ELSE padStart(<< 0 >> \o str, width)

\* text.trim()
RECURSIVE trim(_)
trim(text) ==
    IF text = << >> THEN text
    ELSE IF Head(text) = " " THEN trim(Tail(text))
    ELSE IF text[Len(text)] = " " THEN trim(SubSeq(text, 1, Len(text) - 1))
    ELSE text

\* date.getUTCHours() of new Date(time): the hour of the day
getUTCHours(time) == (time \div Hour) % 24

getUTCMinutes(time) == (time \div Minute) % 60

getUTCSeconds(time) == (time \div Second) % 60

getUTCMilliseconds(time) == time % 1000

\* formatTime(time): `${hours}:${minutes}:${seconds},${milliseconds}`, each
\* field as its padded digits
formatTime(time) ==
    [hours |-> padStart(toString(getUTCHours(time)), 2),
     minutes |-> padStart(toString(getUTCMinutes(time)), 2),
     seconds |-> padStart(toString(getUTCSeconds(time)), 2),
     milliseconds |-> padStart(toString(getUTCMilliseconds(time)), 3)]

\* convertTranscriptionToSrt(transcript, srtFile) is called
InitSrt ==
    /\ transcript \in Transcripts
    /\ srt = << >>
    /\ idx = 1
    /\ srtWritten = NoSrt
    /\ idleRun /\ idleTasks /\ idleProbe /\ idleServer

\* one pass of the loop over the transcript: the block of one line
convertLine ==
    /\ ~srtWritten.written
    /\ Len(srt) < Len(transcript)
    /\ LET line == transcript[Len(srt) + 1]
       IN  srt' = Append(srt, [index |-> idx,
                               from |-> formatTime(line.from),
                               to |-> formatTime(line.to),
                               text |-> trim(line.text)])
    /\ idx' = idx + 1
    /\ UNCHANGED << transcript, srtWritten, runVars, tasksVars, probeVars, serverVars >>

\* fs.writeFileSync(srtFile, srt) after the loop
writeSrt ==
    /\ ~srtWritten.written
    /\ Len(srt) = Len(transcript)
    /\ srtWritten' = [written |-> TRUE, blocks |-> srt]
    /\ UNCHANGED << transcript, srt, idx, runVars, tasksVars, probeVars, serverVars >>

NextSrt ==
    \/ convertLine
    \/ writeSrt

SpecSrt == InitSrt /\ [][NextSrt]_vars

\* ------------------------------------------- the API server, one request

MaxLogs == 5

\* res.write(chunk): the chunk goes to the response, or is a write after
\* res.end()
write(r, chunk) ==
    IF r.ended THEN [r EXCEPT !.afterEnd = Append(@, chunk)]
    ELSE [r EXCEPT !.writes = Append(@, chunk)]

\* res.end()
end(r) == [r EXCEPT !.ended = TRUE]

\* a POST /generateVideo request arrives, with or without a JSON body
InitServer ==
    /\ handler \in { [pc |-> "received", json |-> j] : j \in {"undefined", "object"} }
    /\ task = [state |-> "none", logs |-> 0]
    /\ listeners = {}
    /\ client = "connected"
    /\ res = [ended |-> FALSE, writes |-> << >>, afterEnd |-> << >>]
    /\ idleRun /\ idleTasks /\ idleProbe /\ idleSrt

\* the handler up to its await: the headers, and the answer to a request
\* without body
postGenerateVideo ==
    /\ handler.pc = "received"
    /\ IF handler.json = "undefined"
       THEN /\ res' = end(write(res, "error"))
            /\ handler' = [handler EXCEPT !.pc = "returned"]
       ELSE /\ handler' = [handler EXCEPT !.pc = "awaiting"]
            /\ UNCHANGED res
    /\ UNCHANGED << task, listeners, client, runVars, tasksVars, probeVars, srtVars >>

\* await genVideoWithJson(...) ends: the handler attaches its listeners to
\* the run and to the response, or the catch block answers with the error
genVideoWithJsonSettles ==
    /\ handler.pc = "awaiting"
    /\ \E ok \in BOOLEAN :
         IF ok
         THEN /\ task' = [state |-> "running", logs |-> 0]
              /\ listeners' = {"log", "done", "close"}
              /\ handler' = [handler EXCEPT !.pc = "returned"]
              /\ UNCHANGED res
         ELSE /\ res' = end(write(res, "error"))
              /\ handler' = [handler EXCEPT !.pc = "returned"]
              /\ UNCHANGED << task, listeners >>
    /\ UNCHANGED << client, runVars, tasksVars, probeVars, srtVars >>

\* the client leaves: 'close' of the response, heard only by a listener
\* attached before
resClose ==
    /\ client = "connected"
    /\ client' = "gone"
    /\ res' = IF "close" \in listeners THEN end(res) ELSE res
    /\ UNCHANGED << handler, task, listeners, runVars, tasksVars, probeVars, srtVars >>

\* the run emits 'log' while it renders
taskLog ==
    /\ task.state = "running"
    /\ task.logs < MaxLogs
    /\ task' = [task EXCEPT !.logs = @ + 1]
    /\ res' = IF "log" \in listeners THEN write(res, "log") ELSE res
    /\ UNCHANGED << handler, listeners, client, runVars, tasksVars, probeVars, srtVars >>

\* the renderer completes: the run emits 'done'
taskDone ==
    /\ task.state = "running"
    /\ task' = [task EXCEPT !.state = "done"]
    /\ res' = IF "done" \in listeners THEN end(write(res, "videoId")) ELSE res
    /\ UNCHANGED << handler, listeners, client, runVars, tasksVars, probeVars, srtVars >>

\* the renderer fails: the run emits a last 'log' and no 'done'
taskError ==
    /\ task.state = "running"
    /\ task' = [task EXCEPT !.state = "failed"]
    /\ res' = IF "log" \in listeners THEN write(res, "log") ELSE res
    /\ UNCHANGED << handler, listeners, client, runVars, tasksVars, probeVars, srtVars >>

NextServer ==
    \/ postGenerateVideo
    \/ genVideoWithJsonSettles
    \/ resClose
    \/ taskLog
    \/ taskDone
    \/ taskError

SpecServer == InitServer /\ [][NextServer]_vars

\* =============================================================== claims
\* the string genVideo is called with
genVideoInput == IF call.fn = "genVideo" THEN call.arg ELSE stringify(call.arg)

\* genVideo has run up to its first await, or has thrown
entered == pc > 0 \/ promise.state # "pending"

rejectedWith(m) == promise.state = "rejected" /\ promise.error.message = m

noStageRan ==
    /\ ~resChecked
    /\ vid = "none"
    /\ tempPath = "none"
    /\ pc = 0

\* C1 (as claimed): an input that is empty or undefined is rejected with
\* "Empty JSON data!", one that is not JSON with "Invalid JSON data!", one
\* that parses but has no `type` with "Invalid JSON data! Missing 'type'
\* field.", each before the resource check, before a generator exists and
\* before a workspace exists.  The document `null` breaks it.
C1_RejectedBeforeAnyStage ==
    entered =>
      /\ genVideoInput.kind \in {"undefined", "empty"}
           => rejectedWith("Empty JSON data!") /\ noStageRan
      /\ genVideoInput.kind = "garbage"
           => rejectedWith("Invalid JSON data!") /\ noStageRan
      /\ (genVideoInput.kind = "text" /\ genVideoInput.value.type = "undefined")
           => rejectedWith("Invalid JSON data! Missing 'type' field.") /\ noStageRan

unknownType ==
    /\ genVideoInput.kind = "text"
    /\ genVideoInput.value.json = "object"
    /\ genVideoInput.value.type \notin ShapeTypes \cup {"undefined"}

\* C2 (as claimed): a document with an unknown type is rejected with an
\* error that names the type, and no other check was performed first.
C2_UnknownTypeNamed ==
    (unknownType /\ entered) =>
      /\ promise.state = "rejected"
      /\ promise.error.names = genVideoInput.value.type
      /\ ~resChecked
      /\ tempPath = "none"

\* C2 (amended): a document with an unknown type is rejected after the
\* resource folders were checked and before a generator or a workspace
\* exists: with the resource-folder error when a folder is missing, with
\* the fixed error "Invalid video type!", which does not name the type,
\* otherwise.
C2_UnknownTypeRejected ==
    (unknownType /\ entered) =>
      /\ resChecked
      /\ vid = "none" /\ tempPath = "none" /\ pc = 0
      /\ IF options.resOk
         THEN promise = [state |-> "rejected", error |-> Err("Invalid video type!", "")]
         ELSE rejectedWith("Resource folder is missing folder")

C2_Witness ==
    unknownType /\ rejectedWith("Invalid video type!") /\ resChecked

\* C3 (as claimed): once a stage before rendering has failed, the promise
\* is rejected, no later stage has started, the renderer was not started
\* and no 'done' event was emitted.
C3_StageFailureAborts ==
    failure.op # "none" =>
      /\ promise.state = "rejected"
      /\ pc = failure.pc
      /\ creator = "none"
      /\ events = << >>

\* C4 (as claimed): once the voice or the image provider has reported a
\* failure, generateVideo has rejected with an error and no later stage
\* runs, whatever the provider.
C4_ProviderFailurePropagates ==
    failure.op \in {"generateVoice", "generateImages"} =>
      /\ promise.state = "rejected"
      /\ promise.error # NoError
      /\ pc = failure.pc

\* C5 (as claimed): a run whose renderer has terminated has delivered
\* exactly one terminal event: 'done' after 'complete', a failure after
\* the renderer's 'error'.
C5_OneTerminalEvent ==
    creator \in {"complete", "error"} =>
      /\ Len(events) = 1
      /\ events[1] = IF creator = "complete" THEN "done" ELSE "error"

\* C6 (as claimed): with debug off, when the run is over every message
\* passed to VideoGen.log has reached the caller's 'log' listener.
C6_AllLogsDelivered ==
    (~options.internalOptions.debug /\ creator \in {"complete", "error"})
      => logged \subseteq delivered

\* the cumulative offset of bubble i (1-based) from the measured clips
RECURSIVE bubbleOffset(_)
bubbleOffset(i) ==
    IF i = 1 THEN 0 ELSE bubbleOffset(i - 1) + files[<<"message.wav", i - 2>>]

\* C7: a Message run hands the renderer one entry per bubble, and bubble i
\* fades in at offset[i] = offset[i-1] + duration[i-1], offset[0] = 0; the
\* clip of `extra` shifts no bubble.
C7_BubbleOffsets ==
    (jsonData.type = "message" /\ creator # "none") =>
      /\ Len(timeline.entries) = jsonData.n
      /\ \A i \in 1..jsonData.n :
           /\ timeline.entries[i].kind = "bubble"
           /\ timeline.entries[i].index = i - 1
           /\ timeline.entries[i].start = bubbleOffset(i)

C7_Witness ==
    /\ jsonData.type = "message" /\ creator = "started"
    /\ jsonData.n = 2 /\ "extra" \in jsonData.fields
    /\ timeline.entries[1].start = 0
    /\ timeline.entries[2].start = 1
    /\ files[<<"extra.wav", 0>>] = 1

\* when an entry ends, the album's images taken together
entryEnd(e) == IF e.kind = "album" THEN e.index * e.dur ELSE e.start + e.dur

\* C8 (as claimed): every bubble, scene and album handed to the renderer
\* ends within the total duration of the video.
C8_EntriesWithinMaster ==
    creator # "none" =>
      \A i \in 1..Len(timeline.entries) :
        timeline.entries[i].kind \in {"bubble", "scene", "album"}
          => entryEnd(timeline.entries[i]) <= timeline.duration

\* the sum of the measured durations of the clips of voiceFiles
RECURSIVE clipSum(_)
clipSum(k) == IF k = 0 THEN 0 ELSE clipSum(k - 1) + files[voiceFiles[k]]

\* C9: the duration set on the renderer is the sum of the measured
\* durations of the clips, with or without background music, and the sum
\* of the offset array where the shape builds one.
C9_RendererDurationIsClipSum ==
    creator # "none" =>
      /\ timeline.duration = clipSum(Len(voiceFiles))
      /\ jsonData.type # "topic" => timeline.duration = reduceSum(durations)

C9_Witness ==
    /\ creator = "started"
    /\ audioFile = <<"audio.wav", 0>>
    /\ Len(voiceFiles) >= 2
    /\ timeline.duration > 0
    /\ timeline.duration # BgDur

RECURSIVE sumDur(_)
sumDur(es) == IF es = << >> THEN 0 ELSE Head(es).dur + sumDur(Tail(es))

\* C10: a Rank run with n >= 1 rankings hands the renderer n + 1 scenes
\* whose durations sum to the master duration, the sum of the n + 2 clips.
C10_RankScenes ==
    (jsonData.type = "rank" /\ creator # "none" /\ jsonData.n >= 1) =>
      /\ Len(timeline.entries) = jsonData.n + 1
      /\ \A i \in 1..Len(timeline.entries) : timeline.entries[i].kind = "scene"
      /\ Len(voiceFiles) = jsonData.n + 2
      /\ sumDur(timeline.entries) = timeline.duration
      /\ sumDur(timeline.entries) = clipSum(jsonData.n + 2)

C10_Witness ==
    /\ jsonData.type = "rank" /\ creator = "started"
    /\ jsonData.n = 2
    /\ Len(timeline.entries) = 3
    /\ files[<<"end.wav", 0>>] = 1
    /\ timeline.entries[3].dur = 3

\* the calls issued so far with operation op
issuedOf(op) == { k \in 1..Len(issued) : issued[k].op = op }

\* the clip sequence a Rank script with n rankings is claimed to have
rankClips(n) ==
    << <<"start.wav", 0>> >> \o [ i \in 1..n |-> <<"rank-full.wav", i - 1>> ]
    \o << <<"end.wav", 0>> >>

\* C11: once the master track of a Rank run is assembled, the clips
\* concatenated are start, ranking 1..n, end (n + 2 clips); every ranking
\* clip is the ranking's voice followed by the tick cue, merged into one
\* file; start and end were merged with no cue; and the cue is neither a
\* clip of its own nor an element of the offset array.
C11_RankClipSequence ==
    (jsonData.type = "rank" /\ audioFile # NoFile) =>
      /\ voiceFiles = rankClips(jsonData.n)
      /\ \E k \in issuedOf("combineVoiceFiles") : issued[k].ins = rankClips(jsonData.n)
      /\ Cardinality(issuedOf("mergeAudio")) = jsonData.n
      /\ \A k \in issuedOf("mergeAudio") :
           \E i \in 1..jsonData.n :
             /\ issued[k].ins = << <<"rank.wav", i - 1>>, tick >>
             /\ issued[k].out = <<"rank-full.wav", i - 1>>
      /\ \A i \in 1..jsonData.n :
           files[<<"rank-full.wav", i - 1>>] = files[<<"rank.wav", i - 1>>] + CueDur
      /\ \A i \in 1..Len(voiceFiles) : voiceFiles[i] # tick
      /\ durations # << >> => Len(durations) = jsonData.n + 2

C11_Witness ==
    /\ jsonData.type = "rank" /\ creator = "started"
    /\ jsonData.n = 2
    /\ Len(durations) = 4
    /\ files[<<"rank.wav", 0>>] = 1
    /\ files[<<"rank-full.wav", 0>>] = 2

\* C12: once the offset array exists, the clips given to combineVoiceFiles
\* and the clips given to getListOfDurations are the same list, in the
\* order generateVideo() pushed them, and durations[i] is the measured
\* duration of clip i whatever the order the probes completed in.
C12_DurationsFollowClipOrder ==
    durations # << >> =>
      /\ \E k \in issuedOf("combineVoiceFiles") : issued[k].ins = voiceFiles
      /\ \E k \in issuedOf("ffprobe") : issued[k].ins = voiceFiles
      /\ Len(durations) = Len(voiceFiles)
      /\ \A i \in 1..Len(voiceFiles) : durations[i] = files[voiceFiles[i]]

C12_Witness ==
    /\ jsonData.type = "rather"
    /\ Len(durations) = 3
    /\ durations[1] = 0 /\ durations[2] = 2 /\ durations[3] = 1
    /\ voiceFiles = << <<"start.wav", 0>>, <<"question-full.wav", 0>>, <<"end.wav", 0>> >>

\* the calls issued so far that go to a collaborator: voice synthesis,
\* ffmpeg and ffprobe, image providers, whisper
external == { k \in 1..Len(issued) : issued[k].op # "createImages" }

missingField ==
    /\ promise.state = "rejected"
    /\ promise.error.message \in { "JSON data is missing required fields!",
                                   "JSON data is missing required \"images\" field!" }

\* C13 (as claimed): when a script is rejected for a missing required
\* field, the image list of Topic included, no voice, ffmpeg, image or
\* transcription call has been issued.
C13_MissingFieldBeforeAnyCall ==
    missingField => external = {}

\* checkJson has run
validated == vid # "none" /\ (pc > 1 \/ promise.state # "pending")

\* C14 (as claimed): a Message script whose `script` array is empty, and a
\* Rather script whose `questions` array is empty, fail validation with
\* the missing-field error.
C14_EmptyArrayRejected ==
    ( /\ validated
      /\ jsonData.type \in {"message", "rather"}
      /\ UnitField(jsonData.type) \in jsonData.fields
      /\ jsonData.n = 0 )
    => (pc = 1 /\ missingField)

\* C15 (as claimed): master assembly is never entered with an empty clip
\* list.
C15_NoEmptyClipList ==
    \A k \in issuedOf("combineVoiceFiles") : issued[k].ins # << >>

\* the output of master assembly, the concatenated voice track
voiceTrack == IF jsonData.type = "topic" THEN <<"voice_full.wav", 0>> ELSE <<"voice.wav", 0>>

\* C16 (as claimed): with useBgMusic off no background mix is performed,
\* and the audio of the later stages and of the renderer is the
\* concatenated voice track.
C16_BgMixGated ==
    ~options.useBgMusic =>
      /\ issuedOf("combineVoiceToBgAudio") = {}
      /\ creator # "none" => audioFile = voiceTrack

\* C17 (as claimed): with disableSubtitles on, the run neither resamples
\* the audio for transcription nor calls the transcriber, and writes no
\* subtitle file.
C17_SubtitlesGated ==
    options.internalOptions.disableSubtitles =>
      /\ issuedOf("genAudio16K") = {}
      /\ issuedOf("transcribeSrt") = {}
      /\ srtFile \notin DOMAIN files

\* call k was issued after a call of op that had completed with its output
\* written
completedBefore(op, k) ==
    \E a \in issuedOf(op) : a < k /\ issued[a].out \in DOMAIN files

\* C18: the stages of a run were issued one after the other in program
\* order; when the transcriber is called, master assembly, the background
\* mix (where the run mixes at all) and the resampling have completed, in
\* that order, and the file that was resampled is the audio file given to
\* the renderer.
C18_TranscribesFinalAudio ==
    \A k \in issuedOf("transcribeSrt") :
      /\ completedBefore("combineVoiceFiles", k)
      /\ \A b \in issuedOf("combineVoiceToBgAudio") :
           /\ b < k
           /\ issued[b].out = audioFile
           /\ \A a \in issuedOf("combineVoiceFiles") : a < b
           /\ \A g \in issuedOf("genAudio16K") : b < g
      /\ completedBefore("genAudio16K", k)
      /\ \A g \in issuedOf("genAudio16K") :
           /\ g < k
           /\ issued[g].ins = << audioFile >>
           /\ files[audio16kFile] = files[audioFile]
      /\ issued[k].ins = << audio16kFile >>
      /\ creator # "none" => issued[Len(issued)].ins = << audioFile >>

C18_Witness ==
    /\ jsonData.type = "topic" /\ creator = "started"
    /\ audioFile = <<"audio.wav", 0>>
    /\ srtFile \in DOMAIN files
    /\ issuedOf("transcribeSrt") # {}
    /\ files[audio16kFile] = 2

\* the image paths of a document, from the position of the query alone
expectedImages ==
    CASE jsonData.type \in {"topic", "rank"} ->
           [ i \in 1..jsonData.m |-> <<"image.png", i - 1>> ]
      [] jsonData.type = "rather" ->
           [ j \in 1..(2 * jsonData.n) |->
               IF j % 2 = 1 THEN <<"image-q-1.png", (j - 1) \div 2>>
               ELSE <<"image-q-2.png", (j - 1) \div 2>> ]
      [] OTHER -> << >>

\* C19: with changePhotos off, the paths image resolution returns are those
\* given by the index or the file prefix of the query under the workspace,
\* the same on every resolution, no image provider is called and no image
\* is fetched.
C19_SkipRefetchPaths ==
    ~options.internalOptions.changePhotos =>
      /\ issuedOf("generateImages") = {}
      /\ Len(imgs) <= Len(expectedImages)
      /\ \A i \in 1..Len(imgs) :
           /\ imgs[i] = expectedImages[i]
           /\ imgs[i] \notin DOMAIN files

C19_Witness ==
    /\ ~options.internalOptions.changePhotos
    /\ jsonData.type = "rather" /\ jsonData.n = 2
    /\ Len(imgs) = 4
    /\ imgs[3] = <<"image-q-1.png", 1>>
    /\ tempPath = "tempPath/id"

\* C20 (as claimed): no call is issued and no file is written before
\* checkTempPath has returned; when it returns, after validation, the
\* workspace is an empty folder below the configured temp path, named by
\* the generated id, a folder of that id left by an earlier run having been
\* removed; and every file the run writes afterwards is written there.
C20_FreshWorkspaceBelowTempPath ==
    /\ tempPath = "none" =>
         /\ issued = << >>
         /\ DOMAIN files \subseteq {staleFile}
    /\ tempPath # "none" =>
         /\ tempPath # uniqueFolder("")
         /\ RequiredFields(jsonData.type) \subseteq jsonData.fields
         /\ staleFile \notin DOMAIN files
         /\ issued = << >> => files = << >>
         /\ \A k \in 1..Len(issued) : issued[k].dir = tempPath

\* C21 (as claimed): no task deletes, recreates or writes into the
\* workspace of another task that has not finished, whatever the
\* interleaving and whatever ids are generated.
C21_WorkspaceExclusive ==
    trespass = {}

\* C22: a probe that ends without error on a clip whose duration is absent
\* or 0 resolves its promise with 0, rejects nothing and throws nothing,
\* and the prober's result has 0 for that clip.
C22_MissingDurationIsZero ==
    \A i \in 1..Len(probes) :
      ( /\ probes[i].did # << >>
        /\ ~probes[i].result.err
        /\ probes[i].result.metadata.duration \in {NoDuration, 0} )
      => /\ settled[i] = [state |-> "resolved", value |-> 0, reason |-> ""]
         /\ probes[i].did = << "read metadata", "resolve" >>
         /\ returned.state = "resolved" => returned.value[i] = 0

C22_Witness ==
    /\ Len(probes) = 2
    /\ probes[1].result = [err |-> FALSE, metadata |-> [present |-> TRUE, duration |-> NoDuration]]
    /\ probes[2].result = [err |-> FALSE, metadata |-> [present |-> TRUE, duration |-> MaxDur]]
    /\ completed = << 2, 1 >>
    /\ returned = [fn |-> "getListOfDurations", state |-> "resolved",
                   value |-> << 0, MaxDur >>, reason |-> ""]
    /\ uncaught = 0

\* C29 (as claimed): the callback of a failed probe rejects the promise
\* with the probe error and does nothing else: it does not read the
\* metadata, does not call resolve and throws nothing; the prober's
\* promise is then rejected.
C29_FailedProbeOnlyRejects ==
    \A i \in 1..Len(probes) :
      (probes[i].did # << >> /\ probes[i].result.err)
      => /\ settled[i] = [state |-> "rejected", value |-> 0, reason |-> "err"]
         /\ probes[i].did = << "reject" >>
         /\ uncaught = 0
         /\ returned.state = "rejected"

\* the number a padded field shows
RECURSIVE fieldValue(_)
fieldValue(str) ==
    IF str = << >> THEN 0
    ELSE 10 * fieldValue(SubSeq(str, 1, Len(str) - 1)) + str[Len(str)]

\* the instant a time HH:MM:SS,mmm names, in milliseconds
srtMillis(t) ==
    fieldValue(t.hours) * Hour + fieldValue(t.minutes) * Minute
    + fieldValue(t.seconds) * Second + fieldValue(t.milliseconds)

wellFormedTime(t) ==
    /\ Len(t.hours) = 2 /\ Len(t.minutes) = 2 /\ Len(t.seconds) = 2
    /\ Len(t.milliseconds) = 3
    /\ fieldValue(t.minutes) < 60 /\ fieldValue(t.seconds) < 60

\* one block per segment, in transcript order, indexed from 1, with times
\* of the form HH:MM:SS,mmm
srtBlocksInOrder ==
    srtWritten.written =>
      /\ Len(srtWritten.blocks) = Len(transcript)
      /\ \A i \in 1..Len(transcript) :
           /\ srtWritten.blocks[i].index = i
           /\ srtWritten.blocks[i].text = trim(transcript[i].text)
           /\ wellFormedTime(srtWritten.blocks[i].from)
           /\ wellFormedTime(srtWritten.blocks[i].to)

\* C23 (as claimed): for every transcript the subtitle file has one block
\* per segment in transcript order, indexed consecutively from 1, with
\* times of the form HH:MM:SS,mmm, and the times of the blocks never
\* decrease from one time to the next across the file.
C23_SrtBlocksMonotone ==
    srtWritten.written =>
      /\ srtBlocksInOrder
      /\ \A i \in 1..Len(srtWritten.blocks) :
           srtMillis(srtWritten.blocks[i].from) <= srtMillis(srtWritten.blocks[i].to)
      /\ \A i \in 1..(Len(srtWritten.blocks) - 1) :
           srtMillis(srtWritten.blocks[i].to) <= srtMillis(srtWritten.blocks[i + 1].from)

\* the scenes among the entries handed to the renderer
sceneEntries == SelectSeq(timeline.entries, LAMBDA e : e.kind = "scene")

\* C24: a Rather run with n >= 1 questions hands the renderer n scenes
\* whose durations sum to the total of the n + 2 clips: scene i lasts as
\* long as the cue-merged clip of question i, the first scene also as long
\* as the start narration and the last also as long as the end narration.
C24_RatherScenes ==
    (jsonData.type = "rather" /\ creator # "none" /\ jsonData.n >= 1) =>
      /\ Len(voiceFiles) = jsonData.n + 2
      /\ Len(sceneEntries) = jsonData.n
      /\ sumDur(sceneEntries) = clipSum(jsonData.n + 2)
      /\ \A i \in 1..jsonData.n :
           sceneEntries[i].dur =
             files[<<"question-full.wav", i - 1>>]
             + (IF i = 1 THEN files[<<"start.wav", 0>>] ELSE 0)
             + (IF i = jsonData.n THEN files[<<"end.wav", 0>>] ELSE 0)

C24_Witness ==
    /\ jsonData.type = "rather" /\ creator = "started"
    /\ jsonData.n = 1
    /\ files[<<"start.wav", 0>>] = 1 /\ files[<<"end.wav", 0>>] = 1
    /\ Len(sceneEntries) = 1
    /\ sceneEntries[1].dur = files[<<"question-full.wav", 0>>] + 2

\* the place of clip f in voiceFiles
clipIndex(f) == CHOOSE k \in 1..Len(voiceFiles) : voiceFiles[k] = f

\* C25 (as claimed): in a Quiz run the answer of question i fades in one
\* second before the end of question i's own merged clip, inside that
\* clip and never at a negative offset, with or without the start
\* narration.
C25_QuizRevealInsideOwnClip ==
    (jsonData.type = "quiz" /\ creator # "none") =>
      \A i \in 1..jsonData.n :
        LET k == clipIndex(<<"question-full.wav", i - 1>>)
            reveal == timeline.entries[i].start
        IN  /\ timeline.entries[i].kind = "answer"
            /\ reveal = clipSum(k) - 1
            /\ reveal >= clipSum(k - 1)
            /\ reveal >= 0

\* the same with the start narration present
quizRevealWithStart ==
    (jsonData.type = "quiz" /\ creator # "none" /\ "start_script" \in jsonData.fields) =>
      \A i \in 1..jsonData.n :
        timeline.entries[i].start = clipSum(clipIndex(<<"question-full.wav", i - 1>>)) - 1

\* C26 (as claimed): in a Rather run the delay of the fade-in of the
\* percentage labels of a scene is never negative and never longer than
\* the scene, whatever the durations of the clips.
C26_PercentDelayWithinScene ==
    (jsonData.type = "rather" /\ creator # "none") =>
      \A i \in 1..Len(timeline.entries) :
        timeline.entries[i].kind \in {"percent1", "percent2"}
          => /\ timeline.entries[i].start >= 0
             /\ timeline.entries[i].start <= timeline.entries[i].dur

\* the delay never exceeds the scene
percentDelayAtMostScene ==
    (jsonData.type = "rather" /\ creator # "none") =>
      \A i \in 1..Len(timeline.entries) :
        timeline.entries[i].kind \in {"percent1", "percent2"}
          => timeline.entries[i].start <= timeline.entries[i].dur

\* C27 (as claimed): every audio or image path of the workspace that the
\* pipeline passes to a later stage or to the renderer names a file that
\* was written into the run's fresh workspace earlier in the run, also
\* with TTS disabled and with the image fetch skipped.  The cue and music
\* files of the resource folder are left aside.
C27_PassedPathsWereWritten ==
    /\ \A k \in 1..Len(issued) :
         \A j \in 1..Len(issued[k].ins) :
           issued[k].ins[j] \in ResFiles \/ issued[k].ins[j] \in DOMAIN files
    /\ creator # "none" =>
         \A j \in 1..Len(imgs) : imgs[j] \in DOMAIN files

\* with TTS enabled and the images fetched, the inputs of the audio stages
\* were written except where a provider failed silently
passedAudioWrittenWhenAllSucceeds ==
    (options.internalOptions.disableTTS = FALSE /\ failure = NoFailure) =>
      \A k \in 1..Len(issued) :
        \A j \in 1..Len(issued[k].ins) :
          issued[k].ins[j] \in ResFiles \/ issued[k].ins[j] \in DOMAIN files

\* generateVideo() of a Rank run has the result of generateImages
rankImagesResolved ==
    /\ jsonData.type = "rank"
    /\ pc \in 1..Len(plan)
    /\ \E k \in 1..(pc - 1) : plan[k].op = "generateImages"

\* C28 (as claimed): for every Rank script accepted by validation and
\* every image provider, the resolved images hold a path for the title
\* scene and, for every ranking index i, the path of images[i], whatever
\* the lengths of rankings and images and however many results the
\* provider returns.
C28_RankImageForEveryRanking ==
    rankImagesResolved =>
      /\ Len(imgs) >= 1
      /\ \A i \in 1..jsonData.n :
           i <= Len(imgs) /\ imgs[i] = <<"image.png", i - 1>>

\* with Pexels and as many images as rankings the paths are there
rankImagesWithPexels ==
    ( /\ rankImagesResolved
      /\ options.imageGenType = "Pexels"
      /\ jsonData.m >= jsonData.n /\ jsonData.m >= 1 ) =>
      \A i \in 1..jsonData.n : imgs[i] = <<"image.png", i - 1>>

\* C30 (as claimed): the server never writes to the event-stream response
\* of a request after that response has been ended: once the client has
\* left or 'done' has been delivered, a later 'log' or 'done' of the run
\* causes no write.
C30_NoWriteAfterEnd == res.afterEnd = << >>

====
